---------------------------- MODULE Spec2Model ----------------------------
(***************************************************************************)
(* Data preparation pipeline of the part-of-speech tagger:                 *)
(*   DataInput.parse_dataset, DataInput.train_dev_test_split               *)
(*                                               (src/data_input.py)       *)
(*   TextVectorizer.adapt / transform, TargetVectorizer.adapt / transform  *)
(*   / inverse_transform                         (src/text_vectorizer.py)  *)
(* Each component has its own specification (SpecSplit, SpecText,          *)
(* SpecTarget, SpecParse); the variables of the other components stay at   *)
(* their idle values.  A Python exception is modelled as the name of its   *)
(* class in the *_error field of the call; "none" means a normal return.   *)
(*                                                                         *)
(* Library behaviour the code relies on:                                   *)
(*  - numpy: np.array of sequences of unequal length is an array of        *)
(*    objects (numpy before 1.24), so a collection of documents is a       *)
(*    sequence of sequences here;                                          *)
(*  - sklearn LabelBinarizer: fit sets y_type_, refuses an empty y and     *)
(*    then sets classes_ to the sorted distinct labels; transform gives    *)
(*    one column for one or two classes and one column per class from      *)
(*    three classes on, and refuses an empty y.                            *)
(* Not modelled: download and extraction (import_data,                     *)
(* download_glove_if_needed), the files np.savetxt writes under            *)
(* path_store, and print; none of them changes a value the program         *)
(* returns.  The fractions train_size and dev_size are exact rationals:    *)
(* the rounding of the floating-point product is not modelled.             *)
(***************************************************************************)
EXTENDS Integers, Sequences, FiniteSets, TLC

VARIABLES
    \* ---- DataInput.train_dev_test_split
    X, y,                \* the corpus handed to the splitter (parallel lists)
    train_size, dev_size,\* the fractions, as <<numerator, denominator>>
    split_pc,            \* "ready" | "done" | "error"
    train_set, dev_set, test_set,   \* each <<X part, y part>>
    split_error,
    \* ---- TextVectorizer
    vocabulary,          \* self.vocabulary: word -> vector
    tv_call,             \* the last call: op, documents, result, error, count
    adapted,             \* history: every word ever passed to adapt
    \* ---- TargetVectorizer
    vectorizer,          \* the LabelBinarizer: fitted, classes_, y_type_
    tg_call,             \* the last call: op, targets, result, error
    tg_adapt_called,     \* history: adapt has been called at least once
    \* ---- DataInput.parse_dataset
    docs,                \* the files: each a sequence of lines
    split_into_sentences,
    parse_pc,            \* "ready" | "done" | "error"
    parsed_X, parsed_y,  \* what parse_dataset returned
    parse_error

splitVars  == <<X, y, train_size, dev_size, split_pc, train_set, dev_set,
                test_set, split_error>>
textVars   == <<vocabulary, tv_call, adapted>>
targetVars == <<vectorizer, tg_call, tg_adapt_called>>
parseVars  == <<docs, split_into_sentences, parse_pc, parsed_X, parsed_y,
                parse_error>>
vars == <<splitVars, textVars, targetVars, parseVars>>

---------------------------------------------------------------------------
(* Bounds of the model *)
MaxCorpus == 3      \* documents in the corpus given to the splitter
MaxDen == 3         \* denominators of the fractions train_size, dev_size
MaxDocs == 2        \* documents in one call of a vectorizer
MaxTokens == 2      \* tokens in one call of TextVectorizer, over all documents
MaxTags == 3        \* tags in one call of TargetVectorizer, over all documents
MaxFiles == 2       \* files given to parse_dataset
MaxLines == 3       \* lines of one file

---------------------------------------------------------------------------
(* Python and numpy primitives *)
Min(a, b) == IF a <= b THEN a ELSE b
Max(a, b) == IF a >= b THEN a ELSE b

SeqsUpTo(S, n) == UNION {[1..k -> S] : k \in 0..n}

RECURSIVE SumLen(_)
SumLen(ss) == IF ss = <<>> THEN 0 ELSE Len(Head(ss)) + SumLen(Tail(ss))

\* collections of at most d sequences over S holding at most n elements in all
Collections(S, d, n) == {c \in SeqsUpTo(SeqsUpTo(S, n), d) : SumLen(c) <= n}

Count(s, e) == Cardinality({i \in DOMAIN s : s[i] = e})

\* zip(a, b): stops at the shorter list
Zip(a, b) == [i \in 1..Min(Len(a), Len(b)) |-> <<a[i], b[i]>>]

\* s[a:b] for 0 <= a, 0 <= b: both ends are clamped to len(s)
Slice(s, a, b) ==
    LET lo == Min(a, Len(s))
        hi == Max(lo, Min(b, Len(s)))
    IN  [i \in 1..(hi - lo) |-> s[lo + i]]

\* {x for sub in ss for x in sub}
Flatten(ss) == UNION {{ss[i][j] : j \in DOMAIN ss[i]} : i \in DOMAIN ss}

---------------------------------------------------------------------------
(* Idle values of each component *)
IdleSplit ==
    /\ X = <<>> /\ y = <<>>
    /\ train_size = <<0, 1>> /\ dev_size = <<0, 1>>
    /\ split_pc = "idle"
    /\ train_set = <<<<>>, <<>>>> /\ dev_set = <<<<>>, <<>>>>
    /\ test_set = <<<<>>, <<>>>>
    /\ split_error = "none"

NoCall == [op |-> "none", input |-> <<>>, result |-> <<>>, error |-> "none",
           count |-> 0]

IdleText ==
    /\ vocabulary = <<>>
    /\ tv_call = NoCall
    /\ adapted = {}

IdleTarget ==
    /\ vectorizer = [fitted |-> FALSE, classes_ |-> <<>>, y_type_ |-> "unset"]
    /\ tg_call = NoCall
    /\ tg_adapt_called = FALSE

IdleParse ==
    /\ docs = <<>> /\ split_into_sentences = FALSE
    /\ parse_pc = "idle"
    /\ parsed_X = <<>> /\ parsed_y = <<>>
    /\ parse_error = "none"

---------------------------------------------------------------------------
(* DataInput.train_dev_test_split *)

\* the documents the corpus is drawn from: <<tokens, tags>>, of equal length;
\* X and y are parallel, as parse_dataset returns them
DocPool == { <<<<"a">>, <<"NN">>>>,
             <<<<"a">>, <<"VB">>>>,
             <<<<"b", "a">>, <<"NN", "VB">>>> }

RECURSIVE Gcd(_, _)
Gcd(a, b) == IF b = 0 THEN a ELSE Gcd(b, a % b)

\* the fractions of [0, 1] in lowest terms, <<numerator, denominator>>
Fractions == {f \in (0..MaxDen) \X (1..MaxDen) :
                 f[1] <= f[2] /\ Gcd(f[1], f[2]) = 1}

\* train_size + dev_size <= 1
ValidFractions(t, d) == t[1] * d[2] + d[1] * t[2] <= t[2] * d[2]

\* int(fraction * n): truncation of the product
IntOfProduct(f, n) == (f[1] * n) \div f[2]

TrainSlice(s, t) == Slice(s, 0, t)
DevSlice(s, t, d) == Slice(s, t, t + d)
TestSliceFromTrainEnd(s, t, d) == Slice(s, t, Len(s))
TestSlice(s, t, d) == Slice(s, t + d, Len(s))

\* random.shuffle(dataset) with the permutation p it picked
Shuffle(dataset, p) == [i \in DOMAIN dataset |-> dataset[p[i]]]

InitSplit ==
    /\ \E corpus \in SeqsUpTo(DocPool, MaxCorpus) :
          /\ X = [i \in DOMAIN corpus |-> corpus[i][1]]
          /\ y = [i \in DOMAIN corpus |-> corpus[i][2]]
    /\ train_size \in Fractions
    /\ dev_size \in Fractions
    /\ ValidFractions(train_size, dev_size)
    /\ split_pc = "ready"
    /\ train_set = <<<<>>, <<>>>> /\ dev_set = <<<<>>, <<>>>>
    /\ test_set = <<<<>>, <<>>>>
    /\ split_error = "none"
    /\ IdleText /\ IdleTarget /\ IdleParse

\* X, y = zip(*dataset) of an empty dataset: nothing to unpack
SplitEmpty ==
    /\ split_pc = "ready"
    /\ Zip(X, y) = <<>>
    /\ split_pc' = "error"
    /\ split_error' = "ValueError"
    /\ UNCHANGED <<X, y, train_size, dev_size, train_set, dev_set, test_set>>
    /\ UNCHANGED <<textVars, targetVars, parseVars>>

SplitNonEmpty ==
    /\ split_pc = "ready"
    /\ Zip(X, y) # <<>>
    /\ \E p \in Permutations(DOMAIN Zip(X, y)) :
          LET dataset == Shuffle(Zip(X, y), p)
              Xs == [i \in DOMAIN dataset |-> dataset[i][1]]
              ys == [i \in DOMAIN dataset |-> dataset[i][2]]
              t  == IntOfProduct(train_size, Len(Xs))
              d  == IntOfProduct(dev_size, Len(Xs))
          IN  /\ train_set' = <<TrainSlice(Xs, t), TrainSlice(ys, t)>>
              /\ dev_set' = <<DevSlice(Xs, t, d), DevSlice(ys, t, d)>>
              /\ test_set' = <<TestSlice(Xs, t, d), TestSlice(ys, t, d)>>
    /\ split_pc' = "done"
    /\ split_error' = "none"
    /\ UNCHANGED <<X, y, train_size, dev_size>>
    /\ UNCHANGED <<textVars, targetVars, parseVars>>

train_dev_test_split == SplitEmpty \/ SplitNonEmpty

NextSplit == train_dev_test_split

SpecSplit == InitSplit /\ [][NextSplit]_vars

---------------------------------------------------------------------------
(* TextVectorizer *)

Words == {"cat", "fox"}

\* The embedding vectors, as opaque values: two points of [-1, 1]^embedding_dim.
\* parse_glove reads them from the table, adapt draws them at random.
Vectors == {"v1", "v2"}

\* The words the pretrained table may hold; "fox" is never pretrained.
GloveWords == {"cat"}

\* every table parse_glove can return
Tables == UNION {[ws -> Vectors] : ws \in SUBSET GloveWords}

DocumentInputs == Collections(Words, MaxDocs, MaxTokens)

\* oov_words = words - self.vocabulary.keys()
OovWordsAll(words, vocab) == words
OovWordsReversed(words, vocab) == (DOMAIN vocab) \ words
OovWords(words, vocab) == words \ (DOMAIN vocab)

\* for word in oov_words: self.vocabulary[word] = <the vector drawn for it>
Assign(vocab, drawn) ==
    [w \in (DOMAIN vocab) \cup (DOMAIN drawn) |->
        IF w \in DOMAIN drawn THEN drawn[w] ELSE vocab[w]]

\* _transform_document: a KeyError of the lookup becomes NotAdaptedError
TransformDocumentSkip(vocab, document) ==
    LET known == SelectSeq(document, LAMBDA w : w \in DOMAIN vocab)
    IN  [error |-> "none", value |-> [j \in DOMAIN known |-> vocab[known[j]]]]
TransformDocument(vocab, document) ==
    IF \E j \in DOMAIN document : document[j] \notin DOMAIN vocab
    THEN [error |-> "NotAdaptedError", value |-> <<>>]
    ELSE [error |-> "none",
          value |-> [j \in DOMAIN document |-> vocab[document[j]]]]

\* transform: the list comprehension stops at the first document that raises
Transform(vocab, documents) ==
    LET each == [i \in DOMAIN documents |->
                    TransformDocument(vocab, documents[i])]
    IN  IF \E i \in DOMAIN each : each[i].error # "none"
        THEN [error |-> "NotAdaptedError", value |-> <<>>]
        ELSE [error |-> "none",
              value |-> [i \in DOMAIN each |-> each[i].value]]

InitText ==
    /\ vocabulary \in Tables
    /\ tv_call = NoCall
    /\ adapted = {}
    /\ IdleSplit /\ IdleTarget /\ IdleParse

\* TextVectorizer.adapt(documents)
TV_adapt ==
    \E documents \in DocumentInputs :
      LET words == Flatten(documents)
          oov_words == OovWords(words, vocabulary)
      IN  /\ \E drawn \in [oov_words -> Vectors] :
                vocabulary' = Assign(vocabulary, drawn)
          /\ tv_call' = [op |-> "adapt", input |-> documents,
                         result |-> <<>>, error |-> "none",
                         count |-> Cardinality(oov_words)]
          /\ adapted' = adapted \cup words
          /\ UNCHANGED <<splitVars, targetVars, parseVars>>

\* TextVectorizer.transform(documents)
TV_transform ==
    \E documents \in DocumentInputs :
      LET r == Transform(vocabulary, documents)
      IN  /\ tv_call' = [op |-> "transform", input |-> documents,
                         result |-> r.value, error |-> r.error,
                         count |-> 0]
          /\ UNCHANGED <<vocabulary, adapted>>
          /\ UNCHANGED <<splitVars, targetVars, parseVars>>

NextText == TV_adapt \/ TV_transform

SpecText == InitText /\ [][NextText]_vars

---------------------------------------------------------------------------
(* TargetVectorizer, over sklearn.preprocessing.LabelBinarizer with its    *)
(* defaults neg_label = 0, pos_label = 1, sparse_output = False            *)

Tags == {"JJ", "NN", "VB"}

\* the order of the tag strings
TagRank(t) == CASE t = "JJ" -> 1 [] t = "NN" -> 2 [] t = "VB" -> 3

TagInputs == Collections(Tags, MaxDocs, MaxTags)

\* [target for doc_targets in targets for target in doc_targets]
RECURSIVE FlattenSeq(_)
FlattenSeq(ss) == IF ss = <<>> THEN <<>> ELSE Head(ss) \o FlattenSeq(Tail(ss))

Range(s) == {s[i] : i \in DOMAIN s}

\* np.unique: the distinct labels in sorted order
Unique(labels) ==
    LET S == Range(labels)
    IN  CHOOSE c \in [1..Cardinality(S) -> S] :
            \A i, j \in DOMAIN c : i < j => TagRank(c[i]) < TagRank(c[j])

\* sklearn type_of_target of a list of strings
TypeOfTarget(labels) ==
    IF Cardinality(Range(labels)) > 2 THEN "multiclass" ELSE "binary"

\* LabelBinarizer.fit: y_type_ is set, then an empty y is refused, then
\* classes_ is set
Fit(v, labels) ==
    IF Len(labels) = 0
    THEN [error |-> "ValueError",
          v |-> [v EXCEPT !.y_type_ = TypeOfTarget(labels)]]
    ELSE [error |-> "none",
          v |-> [fitted |-> TRUE, classes_ |-> Unique(labels),
                 y_type_ |-> TypeOfTarget(labels)]]

\* the row of the indicator matrix for one label
IndicatorRow(classes, label) ==
    [c \in DOMAIN classes |-> IF classes[c] = label THEN 1 ELSE 0]

\* label_binarize(y, classes=classes_): one document
LabelBinarize(classes, document) ==
    LET y_type == TypeOfTarget(document)
        n_classes == Len(classes)
        Y == [i \in DOMAIN document |-> IndicatorRow(classes, document[i])]
    IN  IF Len(document) = 0
        THEN [error |-> "ValueError", value |-> <<>>]
        ELSE IF y_type = "binary" /\ n_classes = 1
        THEN [error |-> "none", value |-> [i \in DOMAIN document |-> <<0>>]]
        ELSE IF y_type = "binary" /\ n_classes < 3
        THEN [error |-> "none",
              value |-> [i \in DOMAIN document |-> <<Y[i][n_classes]>>]]
        ELSE [error |-> "none", value |-> Y]

\* y.argmax(axis=1) of one row: the first position of its maximum
ArgMax(row) ==
    CHOOSE c \in DOMAIN row :
        /\ \A e \in DOMAIN row : row[e] <= row[c]
        /\ \A e \in DOMAIN row : e < c => row[e] < row[c]

\* LabelBinarizer.inverse_transform(Y) with the default threshold 0.5
InverseBinarize(v, Y) ==
    LET classes == v.classes_
        ncols == IF Y = <<>> THEN 0 ELSE Len(Y[1])
        bit(x) == IF 2 * x > 1 THEN 1 ELSE 0
    IN  IF v.y_type_ = "multiclass"
        THEN [error |-> "none",
              value |-> [i \in DOMAIN Y |-> classes[ArgMax(Y[i])]]]
        ELSE IF ncols > 2
        THEN [error |-> "ValueError", value |-> <<>>]
        ELSE IF ncols = 2
        THEN IF \E i \in DOMAIN Y : bit(Y[i][2]) + 1 > Len(classes)
             THEN [error |-> "IndexError", value |-> <<>>]
             ELSE [error |-> "none",
                   value |-> [i \in DOMAIN Y |-> classes[bit(Y[i][2]) + 1]]]
        ELSE IF Len(classes) = 1
        THEN [error |-> "none", value |-> [i \in DOMAIN Y |-> classes[1]]]
        ELSE [error |-> "none",
              value |-> [i \in DOMAIN Y |-> classes[bit(Y[i][1]) + 1]]]

\* [f(document) for document in targets]: the first error ends the call
EachDocument(each) ==
    IF \E i \in DOMAIN each : each[i].error # "none"
    THEN [error |-> each[CHOOSE i \in DOMAIN each :
                            /\ each[i].error # "none"
                            /\ \A k \in DOMAIN each :
                                  each[k].error # "none" => i <= k].error,
          value |-> <<>>]
    ELSE [error |-> "none", value |-> [i \in DOMAIN each |-> each[i].value]]

\* self.vectorizer.classes_.shape[0] == 0: reading classes_ of a
\* LabelBinarizer that was never fitted raises AttributeError
AdaptedCheck(v) ==
    IF ~v.fitted THEN "AttributeError"
    ELSE IF Len(v.classes_) = 0 THEN "NotAdaptedError"
    ELSE "none"

TargetTransform(v, targets) ==
    IF AdaptedCheck(v) # "none"
    THEN [error |-> AdaptedCheck(v), value |-> <<>>]
    ELSE EachDocument([i \in DOMAIN targets |->
                          LabelBinarize(v.classes_, targets[i])])

TargetInverseTransform(v, targets) ==
    IF AdaptedCheck(v) # "none"
    THEN [error |-> AdaptedCheck(v), value |-> <<>>]
    ELSE EachDocument([i \in DOMAIN targets |-> InverseBinarize(v, targets[i])])

\* the one-hot collections handed to inverse_transform: what transform
\* returns under the current class set, or, before any fit, a fixed sample
OneHotInputs(v) ==
    IF v.fitted
    THEN {TargetTransform(v, t).value :
             t \in {u \in TagInputs : TargetTransform(v, u).error = "none"}}
    ELSE {<<>>, << << <<1>> >> >>, << << <<1, 0>>, <<0, 1>> >> >>}

InitTarget ==
    /\ vectorizer = [fitted |-> FALSE, classes_ |-> <<>>, y_type_ |-> "unset"]
    /\ tg_call = NoCall
    /\ tg_adapt_called = FALSE
    /\ IdleSplit /\ IdleText /\ IdleParse

\* TargetVectorizer.adapt(targets)
TG_adapt ==
    \E targets \in TagInputs :
      LET r == Fit(vectorizer, FlattenSeq(targets))
      IN  /\ vectorizer' = r.v
          /\ tg_call' = [op |-> "adapt", input |-> targets, result |-> <<>>,
                         error |-> r.error, count |-> 0]
          /\ tg_adapt_called' = TRUE
          /\ UNCHANGED <<splitVars, textVars, parseVars>>

\* TargetVectorizer.transform(targets)
TG_transform ==
    \E targets \in TagInputs :
      LET r == TargetTransform(vectorizer, targets)
      IN  /\ tg_call' = [op |-> "transform", input |-> targets,
                         result |-> r.value, error |-> r.error, count |-> 0]
          /\ UNCHANGED <<vectorizer, tg_adapt_called>>
          /\ UNCHANGED <<splitVars, textVars, parseVars>>

\* TargetVectorizer.inverse_transform(targets)
TG_inverse_transform ==
    \E targets \in OneHotInputs(vectorizer) :
      LET r == TargetInverseTransform(vectorizer, targets)
      IN  /\ tg_call' = [op |-> "inverse_transform", input |-> targets,
                         result |-> r.value, error |-> r.error, count |-> 0]
          /\ UNCHANGED <<vectorizer, tg_adapt_called>>
          /\ UNCHANGED <<splitVars, textVars, parseVars>>

NextTarget == TG_adapt \/ TG_transform \/ TG_inverse_transform

SpecTarget == InitTarget /\ [][NextTarget]_vars

---------------------------------------------------------------------------
(* DataInput.parse_dataset *)

\* A line of a file is the sequence of its tab-separated fields,
\* line.split("\t"); the empty line has the one field "".
LinePool == { <<"">>,
              <<"a", "NN", "1">>,
              <<"b", "VB", "2">>,
              <<"c", "JJ">>,
              <<"d", "NN", "3", "x">>,
              <<"e">> }

\* line.strip() == ""
IsBlank(line) == \A f \in DOMAIN line : line[f] = ""

\* What numpy.loadtxt raises for a row that lacks a column of usecols:
\* IndexError up to numpy 1.22, ValueError from numpy 1.23 on.
LoadtxtErrors == {"IndexError", "ValueError"}

\* the for loop over text_file.readlines() of the sentence-split mode, from
\* the accumulators Xs, ys, sentence_text, sentence_tags; the statements after
\* the loop append the last sentence
RECURSIVE ReadLines(_, _, _, _, _)
ReadLines(lines, Xs, ys, sentence_text, sentence_tags) ==
    IF lines = <<>>
    THEN [error |-> "none",
          X |-> Append(Xs, sentence_text), y |-> Append(ys, sentence_tags)]
    ELSE LET line == Head(lines)
         IN  IF IsBlank(line)
             THEN ReadLines(Tail(lines), Append(Xs, sentence_text),
                            Append(ys, sentence_tags), <<>>, <<>>)
             ELSE IF Len(line) # 3
             THEN \* token, tag, number = line.split("\t") cannot unpack
                  [error |-> "ValueError", X |-> <<>>, y |-> <<>>]
             ELSE ReadLines(Tail(lines), Xs, ys,
                            Append(sentence_text, line[1]),
                            Append(sentence_tags, line[2]))

\* np.loadtxt(doc, str, delimiter="\t", usecols=(0, 1)) and the two column
\* reads np_doc[:, 0], np_doc[:, 1]: empty lines are skipped, columns 0 and 1
\* of every other row are kept, and a table of fewer than two rows is not
\* two-dimensional, so that np_doc[:, 0] raises IndexError
LoadColumns(lines, loadtxt_error) ==
    LET rows == SelectSeq(lines, LAMBDA l : l # <<"">>)
    IN  IF \E r \in DOMAIN rows : Len(rows[r]) < 2
        THEN [error |-> loadtxt_error, X |-> <<>>, y |-> <<>>]
        ELSE IF Len(rows) < 2
        THEN [error |-> "IndexError", X |-> <<>>, y |-> <<>>]
        ELSE [error |-> "none",
              X |-> <<[r \in DOMAIN rows |-> rows[r][1]]>>,
              y |-> <<[r \in DOMAIN rows |-> rows[r][2]]>>]

ParseDocument(lines, split, loadtxt_error) ==
    IF split THEN ReadLines(lines, <<>>, <<>>, <<>>, <<>>)
    ELSE LoadColumns(lines, loadtxt_error)

\* for doc in docs: the first exception ends parse_dataset
RECURSIVE ParseDocs(_, _, _, _, _)
ParseDocs(files, split, loadtxt_error, Xs, ys) ==
    IF files = <<>>
    THEN [error |-> "none", X |-> Xs, y |-> ys]
    ELSE LET r == ParseDocument(Head(files), split, loadtxt_error)
         IN  IF r.error # "none"
             THEN [error |-> r.error, X |-> <<>>, y |-> <<>>]
             ELSE ParseDocs(Tail(files), split, loadtxt_error,
                            Xs \o r.X, ys \o r.y)

InitParse ==
    /\ docs \in SeqsUpTo(SeqsUpTo(LinePool, MaxLines), MaxFiles)
    /\ split_into_sentences \in BOOLEAN
    /\ parse_pc = "ready"
    /\ parsed_X = <<>> /\ parsed_y = <<>>
    /\ parse_error = "none"
    /\ IdleSplit /\ IdleText /\ IdleTarget

\* DataInput.parse_dataset(docs, split_into_sentences)
parse_dataset ==
    /\ parse_pc = "ready"
    /\ \E loadtxt_error \in LoadtxtErrors :
          LET r == ParseDocs(docs, split_into_sentences, loadtxt_error,
                             <<>>, <<>>)
          IN  /\ parse_pc' = IF r.error = "none" THEN "done" ELSE "error"
              /\ parsed_X' = r.X
              /\ parsed_y' = r.y
              /\ parse_error' = r.error
    /\ UNCHANGED <<docs, split_into_sentences>>
    /\ UNCHANGED <<splitVars, textVars, targetVars>>

NextParse == parse_dataset

SpecParse == InitParse /\ [][NextParse]_vars

---------------------------------------------------------------------------
(* Properties of train_dev_test_split, under SpecSplit *)

SplitReturned == split_pc \in {"done", "error"}

\* C1: for every corpus of N documents and valid fractions, the call returns
\* three splits of floor(train_size*N), floor(dev_size*N) and the remaining
\* documents, so that the three sizes add up to N.
C1_SplitSizes ==
    SplitReturned =>
        /\ split_pc = "done"
        /\ Len(train_set[1]) = (train_size[1] * Len(X)) \div train_size[2]
        /\ Len(dev_set[1]) = (dev_size[1] * Len(X)) \div dev_size[2]
        /\ Len(test_set[1]) = Len(X) - Len(train_set[1]) - Len(dev_set[1])
        /\ Len(train_set[1]) + Len(dev_set[1]) + Len(test_set[1]) = Len(X)

\* C1 restricted to a corpus of at least one document.
C1_SizesOfNonEmptyCorpus == Len(X) >= 1 => C1_SplitSizes

\* C2: every input pair (X[i], y[i]) is in exactly one split, at the same
\* position of that split's token and tag collections: the pairs of the
\* three splits are the pairs of the corpus, each as often as in the corpus.
C2_SplitKeepsPairs ==
    (SplitReturned /\ Len(X) >= 1) =>
        LET input == Zip(X, y)
            output == Zip(train_set[1], train_set[2])
                        \o Zip(dev_set[1], dev_set[2])
                        \o Zip(test_set[1], test_set[2])
        IN  /\ split_pc = "done"
            /\ Len(train_set[1]) = Len(train_set[2])
            /\ Len(dev_set[1]) = Len(dev_set[2])
            /\ Len(test_set[1]) = Len(test_set[2])
            /\ Len(output) = Len(input)
            /\ \A i \in DOMAIN input :
                  Count(output, input[i]) = Count(input, input[i])

\* a shuffled corpus of three documents, two of them with the same tokens and
\* different tags, one document in each split
C2_Witness ==
    /\ split_pc = "done"
    /\ Len(X) = 3
    /\ X[1] = X[2] /\ y[1] # y[2]
    /\ Len(train_set[1]) = 1 /\ Len(dev_set[1]) = 1 /\ Len(test_set[1]) = 1
    /\ train_set[1][1] # X[1]

---------------------------------------------------------------------------
(* Properties of TextVectorizer, under SpecText *)

\* C3: an adapt call changes no entry the vocabulary held before it, adds
\* exactly the words of its documents that were missing and reports their
\* number; a second adapt with the same documents adds and changes nothing.
C3_AdaptKeepsEntries ==
    [][tv_call'.op = "adapt" =>
          /\ \A w \in DOMAIN vocabulary :
                w \in DOMAIN vocabulary' /\ vocabulary'[w] = vocabulary[w]
          /\ DOMAIN vocabulary' =
                (DOMAIN vocabulary) \cup Flatten(tv_call'.input)
          /\ tv_call'.count =
                Cardinality((DOMAIN vocabulary') \ (DOMAIN vocabulary))
          /\ (tv_call.op = "adapt" /\ tv_call.input = tv_call'.input) =>
                (vocabulary' = vocabulary /\ tv_call'.count = 0)]_vars

\* an adapt call on documents holding "fox", which no pretrained table holds,
\* that found every word present: an earlier adapt had added "fox"
C3_Witness ==
    /\ tv_call.op = "adapt"
    /\ "fox" \in Flatten(tv_call.input)
    /\ tv_call.count = 0
    /\ "fox" \in DOMAIN vocabulary

\* C4: a transform of documents whose tokens were all passed to adapt before
\* does not raise and returns, per document, one vector per token in token
\* order.
C4_TransformAfterAdapt ==
    (tv_call.op = "transform" /\ Flatten(tv_call.input) \subseteq adapted) =>
        /\ tv_call.error = "none"
        /\ Len(tv_call.result) = Len(tv_call.input)
        /\ \A i \in DOMAIN tv_call.input :
              /\ Len(tv_call.result[i]) = Len(tv_call.input[i])
              /\ \A j \in DOMAIN tv_call.input[i] :
                    tv_call.result[i][j] = vocabulary[tv_call.input[i][j]]

\* a transform of a document of two adapted words, one of them out of the
\* pretrained table, whose two vectors differ
C4_Witness ==
    /\ tv_call.op = "transform"
    /\ tv_call.error = "none"
    /\ Flatten(tv_call.input) \subseteq adapted
    /\ \E i \in DOMAIN tv_call.input :
          /\ tv_call.input[i] = <<"fox", "cat">>
          /\ tv_call.result[i][1] # tv_call.result[i][2]

\* C5: a transform of documents with a token the vocabulary lacks fails with
\* NotAdaptedError, returns nothing and leaves the vocabulary as it was.
C5_MissingTokenFails ==
    [][(/\ tv_call'.op = "transform"
        /\ ~(Flatten(tv_call'.input) \subseteq DOMAIN vocabulary)) =>
          /\ tv_call'.error = "NotAdaptedError"
          /\ tv_call'.result = <<>>
          /\ vocabulary' = vocabulary]_vars

\* a failed transform of two documents: every token of the first is in the
\* vocabulary, a token of the second is not
C5_Witness ==
    /\ tv_call.op = "transform"
    /\ tv_call.error = "NotAdaptedError"
    /\ Len(tv_call.input) = 2
    /\ tv_call.input[1] # <<>>
    /\ Flatten(<<tv_call.input[1]>>) \subseteq DOMAIN vocabulary
    /\ ~(Flatten(<<tv_call.input[2]>>) \subseteq DOMAIN vocabulary)

---------------------------------------------------------------------------
(* Properties of TargetVectorizer, under SpecTarget *)

KnownTags(targets) == Flatten(targets) \subseteq Range(vectorizer.classes_)

\* the vector with a 1 at the position of the tag in classes_
OneHot(classes, tag) ==
    [c \in 1..Len(classes) |-> IF classes[c] = tag THEN 1 ELSE 0]

\* the round trip of the collections in Ys
RoundTrip(Ys) ==
    /\ (tg_call.op = "transform" /\ vectorizer.fitted
          /\ tg_call.input \in Ys /\ KnownTags(tg_call.input)) =>
            tg_call.error = "none"
    /\ (tg_call.op = "inverse_transform" /\ vectorizer.fitted) =>
          \A yy \in Ys :
              (/\ KnownTags(yy)
               /\ TargetTransform(vectorizer, yy).error = "none"
               /\ TargetTransform(vectorizer, yy).value = tg_call.input) =>
                  (tg_call.error = "none" /\ tg_call.result = yy)

\* C6: for every collection y of tag sequences over the tags adapt has seen,
\* transform(y) succeeds and inverse_transform(transform(y)) = y.
C6_RoundTrip == RoundTrip(TagInputs)

\* C6 restricted to collections without an empty tag sequence, after an
\* adapt call that did not fail.
C6_RoundTripOfNonEmptySequences ==
    vectorizer.y_type_ = TypeOfTarget(vectorizer.classes_) =>
        RoundTrip({yy \in TagInputs : \A i \in DOMAIN yy : yy[i] # <<>>})

\* C7: before any adapt call, transform and inverse_transform fail with
\* NotAdaptedError.
C7_UnadaptedRaisesNotAdapted ==
    (~tg_adapt_called /\ tg_call.op \in {"transform", "inverse_transform"}) =>
        tg_call.error = "NotAdaptedError"

\* C8: with a class set of k sorted distinct tags, transform maps every tag
\* to the vector of length k with a 1 at the tag's position and 0 elsewhere.
C8_OneHot ==
    /\ vectorizer.fitted =>
          \A c, e \in DOMAIN vectorizer.classes_ :
              c < e => TagRank(vectorizer.classes_[c])
                          < TagRank(vectorizer.classes_[e])
    /\ (tg_call.op = "transform" /\ tg_call.error = "none"
          /\ KnownTags(tg_call.input)) =>
            \A i \in DOMAIN tg_call.input : \A j \in DOMAIN tg_call.input[i] :
                tg_call.result[i][j]
                    = OneHot(vectorizer.classes_, tg_call.input[i][j])

\* C8 restricted to class sets of three or more tags.
C8_OneHotFromThreeClasses == Len(vectorizer.classes_) >= 3 => C8_OneHot

---------------------------------------------------------------------------
(* Properties of parse_dataset, under SpecParse *)

\* C9: in sentence-split mode every Document parse_dataset returns has at
\* least one token, and as many tags as tokens.
C9_NoEmptyDocument ==
    (parse_pc = "done" /\ split_into_sentences) =>
        \A i \in DOMAIN parsed_X :
            /\ Len(parsed_X[i]) >= 1
            /\ Len(parsed_X[i]) = Len(parsed_y[i])

\* C9 without the demand of a token: tokens and tags are aligned.
C9_TokensAndTagsAligned ==
    parse_pc = "done" =>
        /\ Len(parsed_X) = Len(parsed_y)
        /\ \A i \in DOMAIN parsed_X : Len(parsed_X[i]) = Len(parsed_y[i])

\* exactly three tab-separated fields
WellFormed(line) == Len(line) = 3

Malformed(line) == ~IsBlank(line) /\ ~WellFormed(line)

\* C10: in both modes, a non-blank line that does not have exactly three
\* tab-separated fields makes parse_dataset fail with ParseError.
C10_MalformedLineRaisesParseError ==
    (/\ parse_pc \in {"done", "error"}
     /\ \E f \in DOMAIN docs : \E l \in DOMAIN docs[f] :
           Malformed(docs[f][l])) =>
        (parse_pc = "error" /\ parse_error = "ParseError")

=============================================================================
